---- MODULE Spec2Model ----
(***************************************************************************)
(* A model of app.py: the probing loop (probing_loop), the configuration   *)
(* reload, the sample store (table probes) and the read handlers /status   *)
(* and /history.                                                           *)
(*                                                                         *)
(* A datetime is a record [m, us]: m minutes on a grid of whole uptime     *)
(* windows, us the microsecond field (0 or not).  The store keeps a        *)
(* timestamp as the text adapt_datetime makes of it, and every SQL         *)
(* comparison and ORDER BY works on that text.  A text is a sequence of    *)
(* fields: the fixed-width date-time prefix (one number), then the         *)
(* character codes that follow it.                                         *)
(***************************************************************************)
EXTENDS Integers, Sequences, FiniteSets, TLC

\* ---------------------------------------------------------------- bounds
MaxSamples == 2     \* rows the scheduler may append
MaxStored  == 2     \* rows of a table left by earlier runs
MaxEdits   == 1     \* edits of config.yaml by the operator

\* ------------------------------------------------------ program constants
DefaultInterval     == 10   \* config.get("interval_seconds", 10)
UptimeWindowMinutes == 60   \* timedelta(minutes=60) in status()
PlusSign == 43              \* '+' of the "+00:00" suffix of isoformat()
DotSign  == 46              \* '.' before the microseconds of isoformat()
ZChar    == 90              \* 'Z' appended by status() and history()

\* ------------------------------------------------------------------ None
\* An optional value is a sequence: <<>> is None, <<v>> is the value v.
None == <<>>
Some(v) == <<v>>

\* ------------------------------------------------------ timezone adapters
\* The instants of the model: whole uptime windows after the start, with a
\* microsecond field that is zero or not.
Windows == {0, 1}
Micros == {0, 5}
Instants == {[m |-> w * UptimeWindowMinutes, us |-> u] : w \in Windows, u \in Micros}
StartInstant == [m |-> 0, us |-> 0]

\* dt.isoformat(): the microseconds are printed only when they are not zero
adapt_datetime(dt) ==
    IF dt.us = 0 THEN <<dt.m, PlusSign>> ELSE <<dt.m, DotSign, dt.us, PlusSign>>

\* datetime.fromisoformat(s.decode())
convert_datetime(s) ==
    [m |-> s[1], us |-> IF s[2] = DotSign THEN s[3] ELSE 0]

\* SQLite's comparison of two TEXT values: memcmp, then the shorter first
RECURSIVE TextLess(_, _)
TextLess(s, t) ==
    IF s = <<>> THEN t # <<>>
    ELSE IF t = <<>> THEN FALSE
    ELSE IF Head(s) # Head(t) THEN Head(s) < Head(t)
    ELSE TextLess(Tail(s), Tail(t))

TextGeq(s, t) == ~TextLess(s, t)

\* dt - datetime.timedelta(minutes=n)
MinusMinutes(dt, n) == [m |-> dt.m - n, us |-> dt.us]

\* ---------------------------------------------------------- configuration
HostA == [name |-> "a", address |-> "10.0.0.1"]
HostB == [name |-> "b", address |-> "10.0.0.2"]
HostLists == {<<HostA>>, <<HostA, HostB>>, <<HostB, HostA>>}
Intervals == {5}

\* What yaml.safe_load can return for config.yaml: a mapping with any of the
\* two recognised keys, or None for an empty document.
Mappings ==
    {[hosts |-> hl, interval_seconds |-> n] : hl \in HostLists, n \in Intervals}
    \cup {[hosts |-> hl] : hl \in HostLists}
    \cup {[interval_seconds |-> n] : n \in Intervals}
    \cup {<<>>}
Doc(mp) == [kind |-> "map", map |-> mp]
NoneDoc == [kind |-> "none"]
Docs == {Doc(mp) : mp \in Mappings} \cup {NoneDoc}
\* config.yaml itself: a document, or a file that cannot be read or parsed
Unreadable == [kind |-> "unreadable"]
Files == Docs \cup {Unreadable}

\* d.get(key, default) of a mapping
Get(d, key, default) == IF key \in DOMAIN d.map THEN d.map[key] ELSE default

\* ----------------------------------------------------------------- probes
Latencies == {52}        \* tenths of a millisecond: 5.2 ms
ProbeResults == {None} \cup {Some(l) : l \in Latencies}

VARIABLES
    file,       \* content of config.yaml
    edits,      \* number of edits made to config.yaml
    config, HOSTS, INTERVAL,    \* the module's globals
    snap,       \* the document HOSTS was last taken from
    pc,         \* probing_loop: "reload", "probe", "insert", "sleep", "dead"
    it_hosts,   \* the list object the for statement iterates
    it_i,       \* index of the current host in it_hosts
    latency,    \* probing_loop's local: result of probe_host
    tick_seen,  \* hosts visited by the current tick, in order
    reload_log, \* what the tick's reload attempt logged: "change", "failed"
    store_err,  \* the last insert_probe call raised
    slept,      \* argument of the last time.sleep call, None before the first
    store,      \* table probes, in id order
    now,        \* the wall clock
    st_pc,      \* a /status request: "idle", "latest", "count", "done"
    st_hosts,   \* the list object its for statement iterates
    st_i,       \* index of the current host in st_hosts
    st_seen,    \* hosts it has visited, in order
    st_row,     \* its local row: result of the first SELECT
    st_since,   \* its local since, None before line 132 has run
    st_result,  \* its local result
    st_base,    \* number of rows committed when the request started
    h_resp,     \* response of the last /history request, None before the first
    h_req,      \* that request: its arguments and the clock when it ran
    st_last,    \* the last /status response an observer recorded, with the clock
    tie         \* how this SQLite build orders rows with equal sort keys

loopVars == <<config, HOSTS, INTERVAL, snap, pc, it_hosts, it_i, latency,
              tick_seen, reload_log, store_err, slept>>
statusVars == <<st_pc, st_hosts, st_i, st_seen, st_row, st_since, st_result, st_base>>
histVars == <<h_resp, h_req>>
vars == <<file, edits, loopVars, store, now, statusVars, histVars, st_last, tie>>

\* ------------------------------------------------------------ environment
\* The operator rewrites config.yaml.
EditConfig(f) ==
    /\ edits < MaxEdits
    /\ f # file
    /\ file' = f
    /\ edits' = edits + 1
    /\ UNCHANGED <<loopVars, store, now, statusVars, histVars, st_last, tie>>

\* datetime's order
Before(a, b) == a.m < b.m \/ (a.m = b.m /\ a.us < b.us)

ClockAdvance ==
    /\ \E t \in Instants :
        /\ Before(now, t)
        /\ now' = t
    /\ UNCHANGED <<file, edits, loopVars, store, statusVars, histVars, st_last, tie>>

\* datetime.now(UTC) is the wall clock: an adjustment can set it back.
ClockStepBack ==
    /\ \E t \in Instants :
        /\ Before(t, now)
        /\ now' = t
    /\ UNCHANGED <<file, edits, loopVars, store, statusVars, histVars, st_last, tie>>

\* ---------------------------------------------------------- probing_loop
\* a loop that reads the global again at every host instead
ForListReread(captured, global) ==
    IF Len(global) >= Len(captured) THEN global ELSE captured

\* for h in HOSTS: the list is read once, when the loop starts
ForList(captured, global) == captured

\* first position of the for statement over list hl
EnterFor(hl) == IF Len(hl) = 0 THEN "sleep" ELSE "probe"

\* a comparison by identity: load_config returns a new object every time
ChangedByIdentity(new_cfg, cfg) == TRUE

\* Line 98: new_cfg != config, the structural comparison of two documents
Changed(new_cfg, cfg) == new_cfg # cfg

\* Lines 96-106: the reload attempt and the start of the for statement.
Reload ==
    /\ pc = "reload"
    /\ IF file = Unreadable
       THEN \* load_config raises
            /\ reload_log' = {"failed"}
            /\ UNCHANGED <<config, HOSTS, INTERVAL, snap>>
       ELSE LET new_cfg == file IN
            IF Changed(new_cfg, config)
            THEN IF new_cfg.kind = "map"
                 THEN /\ config' = new_cfg
                      /\ HOSTS' = Get(new_cfg, "hosts", <<>>)
                      /\ INTERVAL' = Get(new_cfg, "interval_seconds", INTERVAL)
                      /\ snap' = new_cfg
                      /\ reload_log' = {"change"}
                 ELSE \* logged, config = None, then None.get raises AttributeError
                      /\ config' = new_cfg
                      /\ reload_log' = {"change", "failed"}
                      /\ UNCHANGED <<HOSTS, INTERVAL, snap>>
            ELSE /\ reload_log' = {}
                 /\ UNCHANGED <<config, HOSTS, INTERVAL, snap>>
    /\ it_hosts' = HOSTS'
    /\ it_i' = 1
    /\ tick_seen' = <<>>
    /\ pc' = EnterFor(HOSTS')
    /\ UNCHANGED <<file, edits, latency, store_err, slept, store, now, statusVars, histVars, st_last, tie>>

\* Lines 107-110: probe_host returns a latency or None, it never raises.
ProbeHost ==
    /\ pc = "probe"
    /\ \E r \in ProbeResults : latency' = r
    /\ tick_seen' = Append(tick_seen, ForList(it_hosts, HOSTS)[it_i])
    /\ pc' = "insert"
    /\ UNCHANGED <<file, edits, config, HOSTS, INTERVAL, snap, it_hosts, it_i,
                   reload_log, store_err, slept, store, now, statusVars, histVars, st_last, tie>>

\* The same call in two steps.  Line 109, entry: subprocess.run starts ping
\* for host number j of the list and waits for it, for 3 seconds at most.
ProbeBegin(j) ==
    /\ pc = "probe"
    /\ it_i = j
    /\ tick_seen' = Append(tick_seen, ForList(it_hosts, HOSTS)[it_i])
    /\ pc' = "wait"
    /\ UNCHANGED <<file, edits, config, HOSTS, INTERVAL, snap, it_hosts, it_i, latency,
                   reload_log, store_err, slept, store, now, statusVars, histVars, st_last, tie>>

\* Lines 109-110, return: ping has ended or timed out.
ProbeEnd ==
    /\ pc = "wait"
    /\ \E r \in ProbeResults : latency' = r
    /\ pc' = "insert"
    /\ UNCHANGED <<file, edits, config, HOSTS, INTERVAL, snap, it_hosts, it_i, tick_seen,
                   reload_log, store_err, slept, store, now, statusVars, histVars, st_last, tie>>

\* a row whose success column does not follow the outcome
RowFlagOnly(name, address, ts, lat, success) ==
    [host_name |-> name, host_address |-> address, timestamp |-> adapt_datetime(ts),
     latency_ms |-> lat, success |-> 1]

\* the row insert_probe writes
Row(name, address, ts, lat, success) ==
    [host_name |-> name, host_address |-> address, timestamp |-> adapt_datetime(ts),
     latency_ms |-> lat, success |-> success]

\* a table that keeps one row per host: the new row takes the place of the
\* host's earlier one
InsertOrReplace(t, r) ==
    LET keep == SelectSeq(t, LAMBDA x : x.host_name # r.host_name) IN Append(keep, r)

\* INSERT INTO probes ... VALUES (...): the table after the statement
Insert(t, r) == Append(t, r)

\* a loop that goes to sleep after the body of its first host
AfterBodyEarly(hl, i) == "sleep"

\* position of the loop after the body for host i of list hl
AfterBody(hl, i) == IF i < Len(hl) THEN "probe" ELSE "sleep"

\* Line 111 with insert_probe (59-67), committed.
InsertProbe ==
    /\ pc = "insert"
    /\ Len(store) < MaxSamples
    /\ LET h == ForList(it_hosts, HOSTS)[it_i]
           success == IF latency # None THEN 1 ELSE 0
       IN store' = Insert(store, Row(h.name, h.address, now,
                                     IF success = 1 THEN latency ELSE None, success))
    /\ store_err' = FALSE
    /\ pc' = AfterBody(ForList(it_hosts, HOSTS), it_i)
    /\ it_i' = it_i + 1
    /\ UNCHANGED <<file, edits, config, HOSTS, INTERVAL, snap, it_hosts, latency,
                   tick_seen, reload_log, slept, now, statusVars, histVars, st_last, tie>>

\* where an exception raised in the body of the for statement leaves the loop:
\* nothing catches it, the thread ends
OnBodyError(hl, i) == "dead"

\* Line 111 when sqlite3 raises (database locked, disk full, ...): no row.
InsertProbeFails ==
    /\ pc = "insert"
    /\ store_err' = TRUE
    /\ pc' = OnBodyError(ForList(it_hosts, HOSTS), it_i)
    /\ it_i' = IF pc' = "dead" THEN it_i ELSE it_i + 1
    /\ UNCHANGED <<file, edits, config, HOSTS, INTERVAL, snap, it_hosts, latency,
                   tick_seen, reload_log, slept, store, now, statusVars, histVars, st_last, tie>>

\* Line 113: time.sleep(INTERVAL), then the next iteration of while True.
Sleep ==
    /\ pc = "sleep"
    /\ slept' = Some(INTERVAL)
    /\ pc' = "reload"
    /\ UNCHANGED <<file, edits, config, HOSTS, INTERVAL, snap, it_hosts, it_i, latency,
                   tick_seen, reload_log, store_err, store, now, statusVars, histVars, st_last, tie>>

\* ---------------------------------------------------------------- /status
\* indices of the rows of table t with host_name = name
RowsOf(t, name) == {i \in 1..Len(t) : t[i].host_name = name}

\* the columns the two handlers select
Columns(r) == [timestamp |-> r.timestamp, latency_ms |-> r.latency_ms, success |-> r.success]

\* SQL leaves the order of rows with equal sort keys open.  One build of
\* SQLite answers one query over one table always the same way: it walks the
\* rows with equal keys in id order ("first") or against it ("last").
TieRules == {"first", "last"}

\* the row the build puts first among the rows S with equal keys
TieIndex(S) ==
    IF tie = "first" THEN CHOOSE i \in S : \A j \in S : i <= j
    ELSE CHOOSE i \in S : \A j \in S : i >= j

\* SELECT ... WHERE host_name=? ORDER BY timestamp DESC LIMIT 1: the rows
\* with the greatest timestamp
LatestIndices(t, name) ==
    {i \in RowsOf(t, name) :
        \A j \in RowsOf(t, name) : ~TextLess(t[i].timestamp, t[j].timestamp)}

\* a SQLite that answers the same query now with one of the rows, now with
\* another
LatestRowsOpen(t, name) ==
    IF RowsOf(t, name) = {} THEN {None}
    ELSE {Some(Columns(t[i])) : i \in LatestIndices(t, name)}

\* what fetchone returns
LatestRows(t, name) ==
    IF RowsOf(t, name) = {} THEN {None}
    ELSE {Some(Columns(t[TieIndex(LatestIndices(t, name))]))}

\* the window with the comparison timestamp > ?
InWindowStrict(t, name, since) ==
    {i \in RowsOf(t, name) : TextLess(adapt_datetime(since), t[i].timestamp)}

\* WHERE host_name=? AND timestamp >= ?
InWindow(t, name, since) ==
    {i \in RowsOf(t, name) : TextGeq(t[i].timestamp, adapt_datetime(since))}

RECURSIVE SumSuccess(_, _)
SumSuccess(t, S) ==
    IF S = {} THEN 0
    ELSE LET i == CHOOSE x \in S : TRUE IN t[i].success + SumSuccess(t, S \ {i})

RECURSIVE GCD(_, _)
GCD(a, b) == IF b = 0 THEN a ELSE GCD(b, a % b)

\* the value of 100.0 * succ / total, as a fraction in lowest terms
Percent(succ, total) ==
    LET g == GCD(100 * succ, total) IN <<(100 * succ) \div g, total \div g>>

\* Lines 133-142
Uptime(t, name, since) ==
    LET total == Cardinality(InWindow(t, name, since))
        succ == SumSuccess(t, InWindow(t, name, since))
    IN IF total > 0 THEN Some(Percent(succ, total)) ELSE None

\* ts.isoformat() + "Z" of a timestamp column read through the converter
Stamp(text) == Append(adapt_datetime(convert_datetime(text)), ZChar)

\* an entry that shows a host without a sample as up
EntryUpByDefault(h, row, uptime) ==
    [name |-> h.name, address |-> h.address,
     timestamp |-> IF row # None THEN Some(Stamp(row[1].timestamp)) ELSE None,
     latency_ms |-> IF row # None THEN row[1].latency_ms ELSE None,
     up |-> IF row # None THEN row[1].success # 0 ELSE TRUE,
     uptime_60m |-> uptime]

\* Lines 144-162
Entry(h, row, uptime) ==
    IF row # None
    THEN [name |-> h.name, address |-> h.address,
          timestamp |-> Some(Stamp(row[1].timestamp)),
          latency_ms |-> row[1].latency_ms,
          up |-> row[1].success # 0,
          uptime_60m |-> uptime]
    ELSE [name |-> h.name, address |-> h.address,
          timestamp |-> None, latency_ms |-> None, up |-> FALSE,
          uptime_60m |-> uptime]

\* Lines 120-123: the request starts, for h in HOSTS reads the list once.
StatusStart ==
    /\ st_pc = "idle"
    /\ st_hosts' = HOSTS
    /\ st_i' = 1
    /\ st_seen' = <<>>
    /\ st_row' = None
    /\ st_since' = None
    /\ st_result' = <<>>
    /\ st_base' = Len(store)
    /\ st_pc' = IF Len(HOSTS) = 0 THEN "done" ELSE "latest"
    /\ UNCHANGED <<file, edits, loopVars, store, now, histVars, st_last, tie>>

\* Lines 124-130: the first SELECT for the current host.
StatusLatest ==
    /\ st_pc = "latest"
    /\ LET h == ForList(st_hosts, HOSTS)[st_i] IN
        /\ st_seen' = Append(st_seen, h)
        /\ \E r \in LatestRows(store, h.name) : st_row' = r
    /\ st_since' = None
    /\ st_pc' = "count"
    /\ UNCHANGED <<file, edits, loopVars, store, now, st_hosts, st_i, st_result, st_base, histVars, st_last, tie>>

\* Lines 131-162: the clock is read, the second SELECT, the entry is appended.
StatusCount ==
    /\ st_pc = "count"
    /\ LET h == ForList(st_hosts, HOSTS)[st_i]
           since == MinusMinutes(now, UptimeWindowMinutes)
       IN /\ st_since' = Some(since)
          /\ st_result' = Append(st_result, Entry(h, st_row, Uptime(store, h.name, since)))
    /\ st_i' = st_i + 1
    /\ st_pc' = IF st_i < Len(ForList(st_hosts, HOSTS)) THEN "latest" ELSE "done"
    /\ UNCHANGED <<file, edits, loopVars, store, now, st_hosts, st_seen, st_row, st_base, histVars, st_last, tie>>

\* Lines 163-164: jsonify(result) is sent, the request is over.
StatusReturnCore ==
    /\ st_pc = "done"
    /\ st_pc' = "idle"
    /\ st_hosts' = <<>>
    /\ st_i' = 1
    /\ st_seen' = <<>>
    /\ st_row' = None
    /\ st_since' = None
    /\ st_result' = <<>>
    /\ st_base' = 0
    /\ UNCHANGED <<file, edits, loopVars, store, now, histVars, tie>>

StatusReturn == StatusReturnCore /\ UNCHANGED st_last

\* the same step with a client that keeps the response and notes the time
StatusReturnSeen ==
    /\ StatusReturnCore
    /\ st_last' = Some([at |-> now, result |-> st_result])

\* --------------------------------------------------------------- /history
\* request.args.get("name"): absent, empty, or a host name
NameArgs == {None, Some(""), Some("a"), Some("b")}
\* request.args.get("minutes"): absent, or a text
MinutesArgs == {None, Some("0"), Some("60"), Some("x")}

\* the texts int() accepts, with their values; int() raises ValueError on others
IntTexts == ("0" :> 0) @@ ("60" :> 60)

\* the rows in ORDER BY timestamp DESC order
OrderedDescending(t, S) ==
    {q \in [1..Cardinality(S) -> S] :
        /\ \A a, b \in DOMAIN q : a # b => q[a] # q[b]
        /\ \A a, b \in DOMAIN q : a < b => ~TextLess(t[q[a]].timestamp, t[q[b]].timestamp)}

\* sequences of the indices S, each once, in ORDER BY timestamp order; rows
\* with equal timestamps come in the order of the build's rule
Ordered(t, S) ==
    {q \in [1..Cardinality(S) -> S] :
        /\ \A a, b \in DOMAIN q : a # b => q[a] # q[b]
        /\ \A a, b \in DOMAIN q : a < b => ~TextLess(t[q[b]].timestamp, t[q[a]].timestamp)
        /\ \A a, b \in DOMAIN q :
              (a < b /\ t[q[a]].timestamp = t[q[b]].timestamp)
                  => q[a] = TieIndex({q[a], q[b]})}

\* Lines 180-187
HistoryItem(r) ==
    [timestamp |-> Stamp(r.timestamp), latency_ms |-> r.latency_ms, up |-> r.success # 0]

\* Lines 166-193: one /history request.
History(name_arg, minutes_arg) ==
    /\ LET text == IF minutes_arg = None THEN "60" ELSE minutes_arg[1] IN
        IF text \notin DOMAIN IntTexts
        THEN \* int() raises ValueError: the request ends as a server error
             h_resp' = Some([code |-> 500])
        ELSE IF name_arg = None \/ name_arg = Some("")
        THEN h_resp' = Some([code |-> 400, error |-> "missing name parameter"])
        ELSE LET since == MinusMinutes(now, IntTexts[text])
                 rows == InWindow(store, name_arg[1], since)
             IN \E q \in Ordered(store, rows) :
                    h_resp' = Some([code |-> 200, name |-> name_arg[1],
                                    since |-> Append(adapt_datetime(since), ZChar),
                                    data |-> [k \in DOMAIN q |-> HistoryItem(store[q[k]])]])
    /\ h_req' = Some([name |-> name_arg, minutes |-> minutes_arg, at |-> now])
    /\ UNCHANGED <<file, edits, loopVars, store, now, statusVars, st_last, tie>>

\* ------------------------------------------------------------------ Init
\* Lines 35-37 at import, a fresh table (init_db), the thread just started.
Init ==
    /\ file \in {Doc(mp) : mp \in Mappings}
    /\ edits = 0
    /\ config = file
    /\ INTERVAL = Get(file, "interval_seconds", DefaultInterval)
    /\ HOSTS = Get(file, "hosts", <<>>)
    /\ snap = file
    /\ pc = "reload"
    /\ it_hosts = <<>>
    /\ it_i = 1
    /\ latency = None
    /\ tick_seen = <<>>
    /\ reload_log = {}
    /\ store_err = FALSE
    /\ slept = None
    /\ store = <<>>
    /\ now = StartInstant
    /\ st_pc = "idle"
    /\ st_hosts = <<>>
    /\ st_i = 1
    /\ st_seen = <<>>
    /\ st_row = None
    /\ st_since = None
    /\ st_result = <<>>
    /\ st_base = 0
    /\ h_resp = None
    /\ h_req = None
    /\ st_last = None
    /\ tie = "first"     \* the rule of the SQLite build at hand

\* The scheduler with its configuration and the /status readers; the clock
\* stands still.
Next ==
    \/ \E f \in Files : EditConfig(f)
    \/ Reload
    \/ ProbeHost
    \/ InsertProbe
    \/ InsertProbeFails
    \/ Sleep
    \/ StatusStart
    \/ StatusLatest
    \/ StatusCount
    \/ StatusReturn

Spec == Init /\ [][Next]_vars

\* The scheduler under one configuration that nobody edits, the clock, and
\* the readers.
InitStore ==
    /\ Init
    /\ "interval_seconds" \notin DOMAIN file.map
    /\ "hosts" \in DOMAIN file.map

\* An append whose datetime.now(UTC) differs from the one of the append
\* before it: time has passed, or the clock was set back.
InsertProbeLater ==
    /\ store # <<>> => store[Len(store)].timestamp # adapt_datetime(now)
    /\ InsertProbe

NextStore ==
    \/ ClockAdvance
    \/ ClockStepBack
    \/ Reload
    \/ ProbeHost
    \/ InsertProbeLater
    \/ Sleep
    \/ StatusStart
    \/ StatusLatest
    \/ StatusCount
    \/ StatusReturn

SpecStore == InitStore /\ [][NextStore]_vars

\* The readers over a table left by earlier runs (monitoring.db outlives the
\* process), while the scheduler thread is not scheduled.
OutcomePairs == {<<None, 0>>} \cup {<<Some(l), 1>> : l \in Latencies}
Rows ==
    {Row(h.name, h.address, ts, o[1], o[2]) :
        h \in {HostA, HostB}, ts \in Instants, o \in OutcomePairs}
Tables == UNION {[1..n -> Rows] : n \in 0..MaxStored}

InitQuery ==
    /\ file = Doc([hosts |-> <<HostA, HostB>>])
    /\ edits = 0
    /\ config = file
    /\ INTERVAL = Get(file, "interval_seconds", DefaultInterval)
    /\ HOSTS = Get(file, "hosts", <<>>)
    /\ snap = file
    /\ pc = "reload"
    /\ it_hosts = <<>>
    /\ it_i = 1
    /\ latency = None
    /\ tick_seen = <<>>
    /\ reload_log = {}
    /\ store_err = FALSE
    /\ slept = None
    /\ store \in Tables
    /\ now \in Instants
    /\ st_pc = "idle"
    /\ st_hosts = <<>>
    /\ st_i = 1
    /\ st_seen = <<>>
    /\ st_row = None
    /\ st_since = None
    /\ st_result = <<>>
    /\ st_base = 0
    /\ h_resp = None
    /\ h_req = None
    /\ st_last = None
    /\ tie \in TieRules  \* any build

\* /status requests alone
NextQuery ==
    \/ StatusStart
    \/ StatusLatest
    \/ StatusCount
    \/ StatusReturn

SpecQuery == InitQuery /\ [][NextQuery]_vars

\* one /history request alone (SpecRepeat has a request after another)
NextHistory ==
    \E n \in NameArgs, m \in MinutesArgs : h_req = None /\ History(n, m)

SpecHistory == InitQuery /\ [][NextHistory]_vars

\* The scheduler under one configuration with both read handlers serving
\* requests while it appends; the clock stands still.
NextServe ==
    \/ Reload
    \/ ProbeHost
    \/ InsertProbe
    \/ Sleep
    \/ StatusStart
    \/ StatusLatest
    \/ StatusCount
    \/ StatusReturn
    \/ \E n \in NameArgs, m \in MinutesArgs : History(n, m)

SpecServe == InitStore /\ [][NextServe]_vars

\* The scheduler alone, with the start and the end of a probe as two steps.
NextTick ==
    \/ \E f \in Files : EditConfig(f)
    \/ Reload
    \/ \E j \in 1..Len(it_hosts) : ProbeBegin(j)
    \/ ProbeEnd
    \/ InsertProbe
    \/ InsertProbeFails
    \/ Sleep

SpecTick == Init /\ [][NextTick]_vars

\* A client that repeats one request, /status or one /history query, and
\* keeps the responses, over a table nobody appends to; the clock advances
\* between two requests.
NextRepeat ==
    \/ ClockAdvance /\ st_pc = "idle"
    \/ StatusStart /\ h_req = None
    \/ StatusLatest
    \/ StatusCount
    \/ StatusReturnSeen
    \/ \E n \in NameArgs, m \in MinutesArgs :
          /\ st_pc = "idle" /\ st_last = None
          /\ h_req # None => (h_req[1].name = n /\ h_req[1].minutes = m)
          /\ History(n, m)

SpecRepeat == InitQuery /\ [][NextRepeat]_vars

\* ================================================================ claims
IsPrefix(s, t) == Len(s) <= Len(t) /\ s = SubSeq(t, 1, Len(s))

LoopRunning == pc \in {"reload", "probe", "insert", "sleep"}

\* C1: an insert_probe that raises for one host of a tick does not stop the
\* tick: while later hosts of the tick are still to be probed, the loop is
\* running.
C1_ErrorIsolation == (store_err /\ it_i < Len(it_hosts)) => LoopRunning

\* C2: the polling loop never halts: no reachable state has the loop stopped.
C2_LoopNeverHalts == pc # "dead"

\* C3: a reload attempt that fails leaves config, HOSTS and INTERVAL exactly
\* as they were, and the tick probes the previously active host list.
C3_FailedReloadKeepsSnapshot ==
    [][(pc = "reload" /\ pc' # "reload" /\ "failed" \in reload_log')
        => (config' = config /\ HOSTS' = HOSTS /\ INTERVAL' = INTERVAL
            /\ it_hosts' = HOSTS)]_vars

\* C4: the hosts a tick visits and the hosts a /status request visits are the
\* host list of one loaded snapshot, from its first host on and, at the end,
\* all of it; a reload during the request does not change the list it walks,
\* and a detected change is in force at the tick's first probe.
C4_SnapshotAtomicity ==
    /\ HOSTS = Get(snap, "hosts", <<>>)
    /\ IsPrefix(tick_seen, HOSTS)
    /\ pc = "sleep" => tick_seen = HOSTS
    /\ (pc \in {"probe", "insert", "sleep"} /\ reload_log = {"change"})
        => IsPrefix(tick_seen, Get(config, "hosts", <<>>))
    /\ st_pc # "idle" =>
        /\ \E d \in Docs : d.kind = "map" /\ st_hosts = Get(d, "hosts", <<>>)
        /\ IsPrefix(st_seen, st_hosts)
        /\ st_pc = "done" => st_seen = st_hosts

\* a /status request has walked a whole two-host list that a reload replaced
\* while the request ran
C4_Witness ==
    /\ st_pc = "done"
    /\ Len(st_seen) = 2
    /\ st_hosts # HOSTS
    /\ HOSTS # <<>>

\* C5: the value passed to the sleep of a tick is the interval_seconds of the
\* snapshot whose hosts the tick probed, or 10 when that snapshot has none.
C5_SleepUsesSnapshotInterval ==
    (pc = "reload" /\ slept # None)
        => slept = Some(Get(snap, "interval_seconds", DefaultInterval))

\* C6: a reload that loads a document equal to the active one reports no
\* change and leaves config, HOSTS and INTERVAL as they are.
C6_NoSpuriousReload ==
    [][(pc = "reload" /\ pc' # "reload" /\ file = config)
        => (reload_log' = {} /\ config' = config /\ HOSTS' = HOSTS
            /\ INTERVAL' = INTERVAL)]_vars

\* the second of two reloads of the same, unedited document has happened
C6_Witness ==
    /\ edits = 0
    /\ slept # None
    /\ pc \in {"probe", "sleep"}
    /\ reload_log = {}
    /\ file = config

\* the instant a stored timestamp text stands for
InstantOf(text) == convert_datetime(text)

SetMax(S) == CHOOSE i \in S : \A j \in S : j <= i

\* the rows of host name whose instant no other row of the host exceeds
MaxStampRows(t, name) ==
    {i \in RowsOf(t, name) :
        \A j \in RowsOf(t, name) :
            ~Before(InstantOf(t[i].timestamp), InstantOf(t[j].timestamp))}

\* entry e of a /status response shows row r of the table
ShowsRow(e, r) ==
    /\ e.timestamp = Some(Append(r.timestamp, ZChar))
    /\ e.latency_ms = r.latency_ms
    /\ e.up = (r.success = 1)

\* C7: for a host with stored samples, the entry of /status shows the sample
\* with the maximum timestamp, and among several with that timestamp the one
\* appended last.
C7_LatestTieBreak ==
    \A k \in 1..Len(st_result) :
        LET S == MaxStampRows(store, st_result[k].name) IN
        S # {} => ShowsRow(st_result[k], store[SetMax(S)])

\* C8: a /status request that starts after an append for a host has
\* committed reports, for that host, that sample or one appended after it.
C8_ReadAfterWrite ==
    st_pc = "count" =>
        LET name == st_seen[Len(st_seen)].name
            committed == {i \in RowsOf(store, name) : i <= st_base}
        IN committed # {} =>
            /\ st_row # None
            /\ \E i \in RowsOf(store, name) :
                i >= SetMax(committed) /\ Columns(store[i]) = st_row[1]

\* the rows of host name stamped at or after the instant one uptime window
\* before instant at
WindowRows(t, name, at) ==
    {i \in 1..Len(t) :
        /\ t[i].host_name = name
        /\ ~Before(InstantOf(t[i].timestamp),
                   [m |-> at.m - UptimeWindowMinutes, us |-> at.us])}

Successes(t, S) == Cardinality({i \in S : t[i].success = 1})

\* C9: uptime_60m of an entry is null exactly when the host has no sample in
\* the trailing 60 minutes; otherwise it is 100 * successes / total over those
\* samples, within [0, 100].
C9_RollingUptime ==
    \A k \in 1..Len(st_result) :
        LET e == st_result[k]
            S == WindowRows(store, e.name, now)
        IN /\ (e.uptime_60m = None) <=> (S = {})
           /\ S # {} =>
                LET f == e.uptime_60m[1] IN
                /\ f[2] > 0
                /\ f[1] * Cardinality(S) = 100 * Successes(store, S) * f[2]
                /\ 0 <= f[1]
                /\ f[1] <= 100 * f[2]

\* a response with a null uptime for a host whose only sample is older than
\* the window, beside a host with a sample in the window
C9_Witness ==
    /\ st_pc = "done"
    /\ \E k1, k2 \in 1..Len(st_result) :
        /\ st_result[k1].uptime_60m = None
        /\ RowsOf(store, st_result[k1].name) # {}
        /\ st_result[k2].uptime_60m # None

\* the cut-off a /history response states
SinceOf(r) == InstantOf(SubSeq(r.since, 1, Len(r.since) - 1))

\* the instant of an item of a /history response
ItemInstant(item) == InstantOf(SubSeq(item.timestamp, 1, Len(item.timestamp) - 1))

\* C10: /history returns exactly the stored samples of the requested host
\* with timestamp >= since, each once, in non-decreasing timestamp order.
C10_HistoryWindow ==
    (h_resp # None /\ h_resp[1].code = 200) =>
        LET r == h_resp[1]
            S == {i \in 1..Len(store) :
                    /\ store[i].host_name = r.name
                    /\ ~Before(InstantOf(store[i].timestamp), SinceOf(r))}
        IN /\ Len(r.data) = Cardinality(S)
           /\ \E q \in [1..Len(r.data) -> S] :
                /\ \A a, b \in 1..Len(r.data) : a # b => q[a] # q[b]
                /\ \A k \in 1..Len(r.data) :
                    /\ r.data[k].timestamp = Append(store[q[k]].timestamp, ZChar)
                    /\ r.data[k].latency_ms = store[q[k]].latency_ms
                    /\ r.data[k].up = (store[q[k]].success = 1)
           /\ \A a, b \in 1..Len(r.data) :
                a < b => ~Before(ItemInstant(r.data[b]), ItemInstant(r.data[a]))

\* a response that lists two samples the table holds in the opposite order
C10_Witness ==
    /\ h_resp # None
    /\ h_resp[1].code = 200
    /\ Len(h_resp[1].data) = 2
    /\ Len(store) = 2
    /\ Before(InstantOf(store[2].timestamp), InstantOf(store[1].timestamp))

\* the history entries of a /history response
EntriesOf(resp) == IF resp[1].code = 200 THEN resp[1].data ELSE <<>>

\* a /status response is sent after an earlier one
StatusAgain == st_last # None /\ st_pc = "done" /\ st_pc' = "idle"

\* a /history response follows one to the same query
HistoryAgain ==
    /\ h_req # None
    /\ h_req' # None
    /\ h_req'[1].name = h_req[1].name
    /\ h_req'[1].minutes = h_req[1].minutes

Consistent(flag, lat) ==
    IF flag THEN lat # None /\ lat[1] >= 0 ELSE lat = None

C13_AppendOnly == [][IsPrefix(store, store')]_vars

\* the store holds a row of a host that a reload has removed from HOSTS, and
\* a row appended after it
C13_Witness ==
    \E i \in DOMAIN store :
          /\ i < Len(store)
          /\ \A k \in DOMAIN HOSTS : HOSTS[k].name # store[i].host_name

\* C14: a /history request without a name parameter is answered 400 with the
\* body {error: "missing name parameter"}, whatever the store holds and
\* whatever the minutes parameter is.
C14_MissingName ==
    (h_req # None /\ h_req[1].name = None)
        => h_resp = Some([code |-> 400, error |-> "missing name parameter"])

\* the minutes parameter of the last /history request is present and int()
\* does not accept it
BadMinutes ==
    /\ h_req # None
    /\ h_req[1].minutes # None
    /\ h_req[1].minutes[1] \notin DOMAIN IntTexts

\* C15: a /history request whose minutes parameter is not an integer is
\* answered with a client error (a 4xx status), and a request with a name
\* and no minutes parameter is answered for the last 60 minutes.
C15_MinutesClientError ==
    /\ BadMinutes => h_resp[1].code \in 400..499
    /\ (h_req # None /\ h_req[1].minutes = None /\ h_req[1].name \notin {None, Some("")})
          => /\ h_resp[1].code = 200
             /\ h_resp[1].since =
                    Append(adapt_datetime(MinusMinutes(h_req[1].at, 60)), ZChar)

\* C16: while the probe of a host of the tick is pending, the probe of every
\* later host of the tick can begin.
C16_ProbeIndependence ==
    pc = "wait" => \A j \in (it_i + 1)..Len(it_hosts) : ENABLED ProbeBegin(j)

\* every host of the tick's list has been probed and its row appended
TickDone == it_i = Len(it_hosts) + 1 /\ tick_seen = it_hosts

\* C17: the loop is at one position of one tick at a time; it sleeps only
\* when every host of the tick is done, it is at the reload check of the
\* next tick only when the tick before is done and has slept (or when no tick
\* has run), and inside a tick it has done exactly the hosts before the
\* current one.
C17_TicksNeverOverlap ==
    /\ pc = "sleep" => TickDone
    /\ (pc = "reload" /\ slept # None) => TickDone
    /\ (pc = "reload" /\ slept = None) => (store = <<>> /\ tick_seen = <<>>)
    /\ pc \in {"probe", "wait", "insert"}
          => /\ it_i <= Len(it_hosts)
             /\ tick_seen = SubSeq(it_hosts, 1, IF pc = "probe" THEN it_i - 1 ELSE it_i)

\* a tick over two hosts has appended both rows and slept, the next tick is
\* at its reload check
C17_Witness ==
    /\ pc = "reload"
    /\ slept # None
    /\ Len(it_hosts) = 2
    /\ Len(store) = 2

\* C18: a complete /status response has one entry per host of the list HOSTS
\* held when the request started, in the order of that list, each with the
\* host's name and address; the entry of a host without a row in the store
\* has timestamp and latency_ms null and up false, the entry of a host that
\* had a row when the request started reports a sample, and no entry is for
\* a host outside the list, whatever rows the store holds.
C18_StatusEntries ==
    st_pc = "done" =>
        /\ Len(st_result) = Len(st_hosts)
        /\ \A k \in DOMAIN st_result :
              /\ st_result[k].name = st_hosts[k].name
              /\ st_result[k].address = st_hosts[k].address
              /\ RowsOf(store, st_hosts[k].name) = {}
                    => /\ st_result[k].timestamp = None
                       /\ st_result[k].latency_ms = None
                       /\ st_result[k].up = FALSE
              /\ RowsOf(SubSeq(store, 1, st_base), st_hosts[k].name) # {}
                    => st_result[k].timestamp # None

\* a complete response for a list of one host, while the store holds a row of
\* a host that is not in the list
C18_Witness ==
    /\ st_pc = "done"
    /\ Len(st_result) = 1
    /\ \E i \in DOMAIN store :
          \A k \in DOMAIN st_hosts : st_hosts[k].name # store[i].host_name

\* the greatest element of a set of row numbers
LastOf(S) == CHOOSE i \in S : \A j \in S : j <= i

\* C19: under one configuration and without store errors, between two ticks
\* every configured host has the same number of rows, one per completed tick,
\* each with the host's name and address; what /status shows for the host is
\* its row of the last tick, and /history with a cut-off before the first
\* tick lists its rows in tick order.
C19_OneSamplePerTick ==
    pc \in {"sleep", "reload"} =>
        \A k \in DOMAIN HOSTS :
            LET ids == RowsOf(store, HOSTS[k].name) IN
            /\ \A l \in DOMAIN HOSTS :
                  Cardinality(RowsOf(store, HOSTS[l].name)) = Cardinality(ids)
            /\ \A i \in ids : store[i].host_address = HOSTS[k].address
            /\ ids # {} =>
                  /\ LatestRows(store, HOSTS[k].name) = {Some(Columns(store[LastOf(ids)]))}
                  /\ \A q \in Ordered(store, ids) :
                        \A a, b \in DOMAIN q : a < b => q[a] < q[b]

\* C20: in every entry of a /status response, also one built while the
\* scheduler appends, an entry that reports no sample has a null uptime (an
\* entry with an uptime reports a sample).
C20_EntryPointInTime ==
    \A k \in DOMAIN st_result :
        (st_result[k].timestamp = None /\ ~st_result[k].up)
            => st_result[k].uptime_60m = None

====
